---- MODULE Spec2Model ----
(***************************************************************************)
(* Model of the village-catalog webhook (src/main.py).                     *)
(*                                                                         *)
(* Text values (CSV cells, request parameters, response texts) are         *)
(* sequences of one-character strings, so that strip / lower / replace /   *)
(* split / join / substring are computed character by character, as        *)
(* Python computes them.  Dictionary keys that the code only compares for  *)
(* equality (column names, parameter names, tags) are plain TLA+ strings.  *)
(***************************************************************************)
EXTENDS Integers, Sequences, FiniteSets, TLC

VARIABLES
  pc,            \* "start": module is being imported; "serving": app is up;
                 \* "call": a pure function is being exercised on its own
  SECRET_TOKEN,  \* main.py:11, read once from the environment
  csv,           \* the rows csv.DictReader yields for CSV_PATH
  CAT,           \* main.py:43, the catalog (an insertion-ordered dict)
  req,           \* the request being answered (NoReq before the first one)
  resp,          \* what fulfillment() returned for req
  hist,          \* an earlier (request, response) exchange kept for comparison
  arg,           \* argument(s) of the pure function under test
  ret            \* the values it returned, in call order

vars == <<pc, SECRET_TOKEN, csv, CAT, req, resp, hist, arg, ret>>

---------------------------------------------------------------------------
(* Bounds of the model *)

MaxLen == 4          \* longest input string given to normalize
MaxPlaceLen == 3     \* longest place parameter enumerated exhaustively
MaxTextLen == 4      \* longest activities text given to filter_activity_line
MaxQueryLen == 2     \* longest activity query given to filter_activity_line
MaxLoadRows == 3     \* most CSV rows when load_catalog is studied on its own
MaxRows == 2         \* most CSV rows behind the request handlers
MaxRecRows == 12     \* most CSV rows behind getRecommendations

---------------------------------------------------------------------------
(* Python values *)

\* None, where a text value is expected (a missing CSV cell, an absent
\* parameter).  It is a one-element sequence whose element is no character.
None == <<"<None>">>

\* The bullet character U+2022 used by bullets() and getRecommendations.
BULLET == "<U+2022>"

\* (s or "")
or_empty(s) == IF s = None THEN <<>> ELSE s

\* bool(s) for s a str or None
truthy(s) == s # None /\ s # <<>>

\* a or b
py_or(a, b) == IF truthy(a) THEN a ELSE b

\* The characters str.strip() removes that a TLA+ string can hold.
WHITESPACE == {" ", "\t", "\n", "\r", "\f"}

UPPER == <<"A", "B", "C", "D", "E", "F", "G", "H", "I", "J", "K", "L", "M",
           "N", "O", "P", "Q", "R", "S", "T", "U", "V", "W", "X", "Y", "Z">>
LOWER == <<"a", "b", "c", "d", "e", "f", "g", "h", "i", "j", "k", "l", "m",
           "n", "o", "p", "q", "r", "s", "t", "u", "v", "w", "x", "y", "z">>

lower_char(c) ==
  IF \E i \in 1..Len(UPPER) : UPPER[i] = c
  THEN LOWER[CHOOSE i \in 1..Len(UPPER) : UPPER[i] = c]
  ELSE c

\* s.lower()
lower(s) == [i \in 1..Len(s) |-> lower_char(s[i])]

SetMin(S) == CHOOSE x \in S : \A y \in S : x <= y
SetMax(S) == CHOOSE x \in S : \A y \in S : x >= y

\* s.strip(chars): drop the longest prefix and suffix made of chars.
strip_chars(s, chars) ==
  LET keep == {i \in 1..Len(s) : s[i] \notin chars}
  IN IF keep = {} THEN <<>> ELSE SubSeq(s, SetMin(keep), SetMax(keep))

\* s.strip()
strip(s) == strip_chars(s, WHITESPACE)

\* s.replace(ch, "") for a one-character ch
remove_char(s, ch) == SelectSeq(s, LAMBDA c : c # ch)

\* s.split(sep) for a one-character sep: always at least one piece.
RECURSIVE split(_, _)
split(s, sep) ==
  LET at == {i \in 1..Len(s) : s[i] = sep}
  IN IF at = {} THEN <<s>>
     ELSE <<SubSeq(s, 1, SetMin(at) - 1)>>
          \o split(SubSeq(s, SetMin(at) + 1, Len(s)), sep)

\* sep.join(items)
RECURSIVE join(_, _)
join(sep, items) ==
  IF items = <<>> THEN <<>>
  ELSE IF Len(items) = 1 THEN items[1]
  ELSE items[1] \o sep \o join(sep, Tail(items))

\* q in s (substring test)
contains(q, s) ==
  \E i \in 0..(Len(s) - Len(q)) : SubSeq(s, i + 1, i + Len(q)) = q

---------------------------------------------------------------------------
(* main.py:13-27 *)

FIELD_MAP ==
  [name        |-> "Village Name",
   state       |-> "State",
   district    |-> "District",
   about       |-> "About the Village",
   attractions |-> "Places to Visit / Tourist Attractions",
   activities  |-> "Activities",
   booking     |-> "Booking Information",
   handicrafts |-> "Local Handicrafts / Products",
   stays       |-> "Places to Stay",
   food        |-> "Famous Foods / Restaurants",
   transport   |-> "Transport and Accessibility",
   unique      |-> "Unique Features",
   official    |-> "Official Website or Contact Info"]

Columns == {FIELD_MAP[k] : k \in DOMAIN FIELD_MAP}

\* row.get(col)
row_get(row, col) == IF col \in DOMAIN row THEN row[col] ELSE None

---------------------------------------------------------------------------
(* main.py:29-30 *)

normalize(s) ==
  remove_char(remove_char(lower(strip(or_empty(s))), " "), "_")

---------------------------------------------------------------------------
(* The catalog: a Python dict, i.e. an insertion-ordered mapping.  It is a
   sequence of (key, row) entries with pairwise different keys. *)

dict_keys(d) == [i \in 1..Len(d) |-> d[i].key]

dict_values(d) == [i \in 1..Len(d) |-> d[i].row]

\* k in d
dict_has(d, k) == \E i \in 1..Len(d) : d[i].key = k

\* d[k], for k in d
dict_get(d, k) == d[CHOOSE i \in 1..Len(d) : d[i].key = k].row

\* d[k] = v: an existing key keeps its position, a new key goes last.
dict_set(d, k, v) ==
  IF dict_has(d, k)
  THEN [i \in 1..Len(d) |-> IF d[i].key = k THEN [key |-> k, row |-> v] ELSE d[i]]
  ELSE Append(d, [key |-> k, row |-> v])

---------------------------------------------------------------------------
(* main.py:32-41 *)

\* The body of "for row in reader", folded over the rows still to read.
RECURSIVE load_rows(_, _)
load_rows(data, rows) ==
  IF rows = <<>> THEN data
  ELSE LET row == Head(rows)
           key == normalize(row_get(row, FIELD_MAP["name"]))
       IN load_rows(IF key # <<>> THEN dict_set(data, key, row) ELSE data,
                    Tail(rows))

\* A loader that keeps the first row of a key instead of the last.
RECURSIVE load_rows_keep_first(_, _)
load_rows_keep_first(data, rows) ==
  IF rows = <<>> THEN data
  ELSE LET row == Head(rows)
           key == normalize(row_get(row, FIELD_MAP["name"]))
       IN load_rows_keep_first(
            IF key # <<>> /\ ~dict_has(data, key)
            THEN dict_set(data, key, row) ELSE data,
            Tail(rows))

load_catalog_keep_first(rows) == load_rows_keep_first(<<>>, rows)

load_catalog(rows) == load_rows(<<>>, rows)

---------------------------------------------------------------------------
(* main.py:45-63 *)

NOT_AVAILABLE ==
  <<"I", "n", "f", "o", "r", "m", "a", "t", "i", "o", "n", " ", "n", "o", "t", " ", "a", "v", "a", "i", "l", "a", "b", "l", "e", ".">>

\* pick(row, field_key, default); callers that omit default pass NOT_AVAILABLE.
pick(row, field_key, default) ==
  LET col == FIELD_MAP[field_key]
      val == strip(or_empty(row_get(row, col)))
  IN IF val # <<>> THEN val ELSE default

\* [x.strip() for x in (text or "").split(";") if x.strip()]
stripped_items(text) ==
  LET parts == split(or_empty(text), ";")
  IN SelectSeq([i \in 1..Len(parts) |-> strip(parts[i])], LAMBDA x : x # <<>>)

\* [f"\u2022 {x}" for x in items]
bullet_lines(items) == [i \in 1..Len(items) |-> <<BULLET, " ">> \o items[i]]

bullets(text) ==
  LET items == stripped_items(text)
  IN IF items # <<>> THEN join(<<"\n">>, bullet_lines(items)) ELSE text

msg(text) == [text |-> [text |-> <<text>>]]

MSG_NO_ACTIVITY ==
  <<"R", "e", "q", "u", "e", "s", "t", "e", "d", " ", "a", "c", "t", "i", "v", "i", "t", "y", " ", "n", "o", "t", " ", "f", "o", "u", "n", "d", " ", "f", "o", "r", " ", "t", "h", "i", "s", " ", "p", "l", "a", "c", "e", ".">>

\* A filter that compares against the query as given, without strip().
filter_activity_line_unstripped(activities_text, activity_query) ==
  IF ~truthy(activity_query) THEN activities_text
  ELSE LET lines == stripped_items(activities_text)
           q == lower(or_empty(activity_query))
           hits == SelectSeq(lines, LAMBDA ln : contains(q, lower(ln)))
       IN IF hits # <<>> THEN join(<<";", " ">>, hits) ELSE MSG_NO_ACTIVITY

filter_activity_line(activities_text, activity_query) ==
  IF ~truthy(activity_query) THEN activities_text
  ELSE LET lines == stripped_items(activities_text)
           q == lower(strip(or_empty(activity_query)))
           hits == SelectSeq(lines, LAMBDA ln : contains(q, lower(ln)))
       IN IF hits # <<>> THEN join(<<";", " ">>, hits) ELSE MSG_NO_ACTIVITY

---------------------------------------------------------------------------
(* Requests.

   header : [present, value]  the SECRET_HEADER header of the request
   body   : [kind, fi, si]    what the request carries as its body
     kind = "none"    no body, or one request.get_json(silent=True) cannot
                      parse: get_json returns None
            "falsy"   a JSON value Python takes for false (null, 0, "", [],
                      {}, false)
            "nonmap"  any other JSON value that is not an object
            "object"  a JSON object with members fi (fulfillmentInfo) and si
                      (sessionInfo)
     fi = [kind, hasTag, tag], si = [kind, pkind, parameters], where kind
     and pkind say what the member is: "absent", "null" (JSON null),
     "nonmap" (a string, number or list) or "map" (an object).
   parameters is a function from parameter names to text values. *)

ParamNames ==
  {"place", "cx_entities_place", "activity", "cx_entities_activity",
   "state", "cx_entities_state", "district", "cx_entities_district"}

\* params.get(k)
params_get(params, k) == IF k \in DOMAIN params THEN params[k] ELSE None

EmptyParams == [k \in {} |-> None]

AbsentFI == [kind |-> "absent", hasTag |-> FALSE, tag |-> ""]
AbsentSI == [kind |-> "absent", pkind |-> "absent", parameters |-> EmptyParams]

\* {}
EmptyBody == [kind |-> "object", fi |-> AbsentFI, si |-> AbsentSI]

---------------------------------------------------------------------------
(* main.py:65-68 *)

\* req.headers.get(SECRET_HEADER, "")
header_get(r) == IF r.header.present THEN r.header.value ELSE <<>>

\* A verifier that ignores letter case.
verify_secret_nocase(token, r) ==
  IF token = <<>> THEN TRUE
  ELSE lower(header_get(r)) = lower(token)

verify_secret(token, r) ==
  IF token = <<>> THEN TRUE
  ELSE header_get(r) = token

---------------------------------------------------------------------------
(* main.py:70-178.  A response is
     [status, body, dispatched, cat_reads, cat]
   status and body are what the client gets; dispatched tells whether the
   handler went past the secret check (line 75 was reached), cat_reads
   counts the accesses to CAT it made, and cat is CAT as the handler left
   it.  An exception escaping the handler is Flask's HTTP 500. *)

MSG_UNAUTHORIZED ==
  <<"U", "n", "a", "u", "t", "h", "o", "r", "i", "z", "e", "d">>
MSG_NOT_FOUND ==
  <<"I", " ", "c", "o", "u", "l", "d", "n", "'", "t", " ", "f", "i", "n", "d", " ", "t", "h", "a", "t", " ", "p", "l", "a", "c", "e", ".", " ", "T", "r", "y", " ", "a", "n", "o", "t", "h", "e", "r", " ", "v", "i", "l", "l", "a", "g", "e", " ", "o", "r", " ", "s", "p", "e", "l", "l", "i", "n", "g", ".">>
MSG_NEED_SCOPE ==
  <<"T", "e", "l", "l", " ", "m", "e", " ", "a", " ", "s", "t", "a", "t", "e", " ", "o", "r", " ", "d", "i", "s", "t", "r", "i", "c", "t", " ", "t", "o", " ", "r", "e", "c", "o", "m", "m", "e", "n", "d", " ", "p", "l", "a", "c", "e", "s", ".">>
MSG_UNHANDLED ==
  <<"U", "n", "h", "a", "n", "d", "l", "e", "d", " ", "w", "e", "b", "h", "o", "o", "k", " ", "t", "a", "g", ".">>
TXT_NO_PLACES ==
  <<"N", "o", " ", "p", "l", "a", "c", "e", "s", " ", "f", "o", "u", "n", "d", " ", "f", "o", "r", " ">>
TXT_RECOMMENDED ==
  <<"R", "e", "c", "o", "m", "m", "e", "n", "d", "e", "d", " ", "p", "l", "a", "c", "e", "s", " ", "i", "n", " ">>
TXT_ATTRACTIONS ==
  <<"T", "o", "p", " ", "a", "t", "t", "r", "a", "c", "t", "i", "o", "n", "s", " ", "i", "n", " ">>
TXT_ACTIVITIES ==
  <<"A", "c", "t", "i", "v", "i", "t", "i", "e", "s", " ", "i", "n", " ">>
TXT_FOOD ==
  <<"F", "o", "o", "d", " ", "i", "n", " ">>
TXT_TRANSPORT ==
  <<"H", "o", "w", " ", "t", "o", " ", "r", "e", "a", "c", "h", " ">>
TXT_STAYS ==
  <<"P", "l", "a", "c", "e", "s", " ", "t", "o", " ", "s", "t", "a", "y", " ", "i", "n", "/", "n", "e", "a", "r", " ">>
TXT_CRAFTS ==
  <<"L", "o", "c", "a", "l", " ", "c", "r", "a", "f", "t", "s", " ", "i", "n", " ">>
TXT_OFFICIAL ==
  <<"O", "f", "f", "i", "c", "i", "a", "l", " ", "i", "n", "f", "o", " ", "f", "o", "r", " ">>
TXT_UNIQUE ==
  <<"\n", "\n", "U", "n", "i", "q", "u", "e", ":", "\n">>

\* The most places getRecommendations lists (places[:10]).
TOP_N == 10

\* jsonify({"fulfillmentResponse": {"messages": [msg(text)]}})
envelope(text) == [fulfillmentResponse |-> [messages |-> <<msg(text)>>]]

reply(status, text, dispatched, cat_reads, cat) ==
  [status |-> status, body |-> envelope(text), dispatched |-> dispatched,
   cat_reads |-> cat_reads, cat |-> cat]

\* An AttributeError raised past the secret check.
crash(cat) ==
  [status |-> 500, body |-> [error |-> "Internal Server Error"],
   dispatched |-> TRUE, cat_reads |-> 0, cat |-> cat]

\* main.py:86-90.  [row, err, cat_reads]: err is the not-found text or None.
by_place_required(cat, place_raw) ==
  LET place_key == normalize(place_raw)
  IN IF place_key = <<>>
     THEN [row |-> None, err |-> MSG_NOT_FOUND, cat_reads |-> 0]
     ELSE IF ~dict_has(cat, place_key)
     THEN [row |-> None, err |-> MSG_NOT_FOUND, cat_reads |-> 1]
     ELSE [row |-> dict_get(cat, place_key), err |-> None, cat_reads |-> 2]

\* main.py:95-103
place_details_text(row, place_raw) ==
  LET name     == pick(row, "name", place_raw)
      state    == pick(row, "state", <<>>)
      district == pick(row, "district", <<>>)
      about    == pick(row, "about", NOT_AVAILABLE)
      unique   == pick(row, "unique", <<>>)
      header   == strip_chars(name \o <<" ", "(">> \o district \o <<",", " ">>
                              \o state \o <<")">>, {",", " "})
      text     == header \o <<"\n", "\n">> \o about
  IN IF unique # <<>> /\ unique # NOT_AVAILABLE
     THEN text \o TXT_UNIQUE \o bullets(unique)
     ELSE text

\* main.py:109-154: the text of the seven other by-place handlers.
by_place_text(tag, row, place_raw, activity_raw) ==
  LET name == pick(row, "name", place_raw)
      head(prefix) == prefix \o name \o <<":", "\n">>
  IN CASE tag = "getPlaceDetails" -> place_details_text(row, place_raw)
       [] tag = "getAttractions" ->
            head(TXT_ATTRACTIONS) \o bullets(pick(row, "attractions", NOT_AVAILABLE))
       [] tag = "getActivities" ->
            head(TXT_ACTIVITIES)
            \o bullets(filter_activity_line(pick(row, "activities", NOT_AVAILABLE),
                                            activity_raw))
       [] tag = "getFood" ->
            head(TXT_FOOD) \o bullets(pick(row, "food", NOT_AVAILABLE))
       [] tag = "getTransport" ->
            head(TXT_TRANSPORT) \o bullets(pick(row, "transport", NOT_AVAILABLE))
       [] tag = "getStays" ->
            head(TXT_STAYS) \o bullets(pick(row, "stays", NOT_AVAILABLE))
       [] tag = "getHandicrafts" ->
            head(TXT_CRAFTS) \o bullets(pick(row, "handicrafts", NOT_AVAILABLE))
       [] tag = "getOfficial" ->
            head(TXT_OFFICIAL) \o pick(row, "official", NOT_AVAILABLE)

ByPlaceTags ==
  {"getPlaceDetails", "getAttractions", "getActivities", "getFood",
   "getTransport", "getStays", "getHandicrafts", "getOfficial"}

\* main.py:158-161
list_places_by(cat, col_key, val) ==
  LET col == FIELD_MAP[col_key]
      target == normalize(val)
      hit == SelectSeq(dict_values(cat),
                       LAMBDA r : normalize(row_get(r, col)) = target)
  IN [i \in 1..Len(hit) |-> row_get(hit[i], FIELD_MAP["name"])]

\* places[:n]
first_n(places, n) ==
  SubSeq(places, 1, IF Len(places) < n THEN Len(places) ELSE n)

\* main.py:172-176
recommend_text(places, scope) ==
  IF places = <<>>
  THEN TXT_NO_PLACES \o scope \o <<".">>
  ELSE TXT_RECOMMENDED \o scope \o <<":", "\n">>
       \o join(<<"\n">>, bullet_lines(first_n(places, TOP_N)))

\* Recommendations that let the state win over the district.
recommend_state_first(cat, state_raw, district_raw) ==
  IF truthy(state_raw)
  THEN reply(200, recommend_text(list_places_by(cat, "state", state_raw),
                                 state_raw), TRUE, 1, cat)
  ELSE IF truthy(district_raw)
  THEN reply(200, recommend_text(list_places_by(cat, "district", district_raw),
                                 district_raw), TRUE, 1, cat)
  ELSE reply(200, MSG_NEED_SCOPE, TRUE, 0, cat)

\* main.py:157-176
recommend(cat, state_raw, district_raw) ==
  IF truthy(district_raw)
  THEN reply(200, recommend_text(list_places_by(cat, "district", district_raw),
                                 district_raw), TRUE, 1, cat)
  ELSE IF truthy(state_raw)
  THEN reply(200, recommend_text(list_places_by(cat, "state", state_raw),
                                 state_raw), TRUE, 1, cat)
  ELSE reply(200, MSG_NEED_SCOPE, TRUE, 0, cat)

\* main.py:85-178: the dispatch on the tag, once tag and params are known.
dispatch(cat, tag, params) ==
  LET place_raw    == py_or(py_or(params_get(params, "place"),
                                  params_get(params, "cx_entities_place")), <<>>)
      activity_raw == py_or(py_or(params_get(params, "activity"),
                                  params_get(params, "cx_entities_activity")), <<>>)
      state_raw    == py_or(py_or(params_get(params, "state"),
                                  params_get(params, "cx_entities_state")), <<>>)
      district_raw == py_or(py_or(params_get(params, "district"),
                                  params_get(params, "cx_entities_district")), <<>>)
  IN IF tag \in ByPlaceTags
     THEN LET found == by_place_required(cat, place_raw)
          IN IF found.err # None
             THEN reply(200, found.err, TRUE, found.cat_reads, cat)
             ELSE reply(200, by_place_text(tag, found.row, place_raw, activity_raw),
                        TRUE, found.cat_reads, cat)
     ELSE IF tag = "getRecommendations"
     THEN recommend(cat, state_raw, district_raw)
     ELSE reply(200, MSG_UNHANDLED, TRUE, 0, cat)

\* main.py:75-77: what the handler reads out of the body, or the exception.
\* [crashed, tag, params]
read_body(r) ==
  LET body == IF r.body.kind \in {"none", "falsy"} THEN EmptyBody ELSE r.body
  IN IF \/ body.kind = "nonmap"                       \* body.get
        \/ body.fi.kind \in {"null", "nonmap"}        \* (...).get("tag", "")
        \/ body.si.kind \in {"null", "nonmap"}        \* (...).get("parameters", {})
        \/ /\ body.si.kind = "map"                    \* params.get("place")
           /\ body.si.pkind \in {"null", "nonmap"}
     THEN [crashed |-> TRUE, tag |-> "", params |-> EmptyParams]
     ELSE [crashed |-> FALSE,
           tag     |-> IF body.fi.kind = "map" /\ body.fi.hasTag
                       THEN body.fi.tag ELSE "",
           params  |-> IF body.si.kind = "map" /\ body.si.pkind = "map"
                       THEN body.si.parameters ELSE EmptyParams]

\* A handler that drops the record it has just served from CAT.
fulfillment_pops(cat, token, r) ==
  IF ~verify_secret(token, r)
  THEN reply(401, MSG_UNAUTHORIZED, FALSE, 0, cat)
  ELSE LET b == read_body(r)
           out == dispatch(cat, b.tag, b.params)
       IN IF b.crashed THEN crash(cat)
          ELSE [out EXCEPT !.cat =
                  IF out.cat_reads = 2
                  THEN SelectSeq(cat, LAMBDA e :
                         e.key # normalize(py_or(py_or(
                           params_get(b.params, "place"),
                           params_get(b.params, "cx_entities_place")), <<>>)))
                  ELSE cat]

fulfillment(cat, token, r) ==
  IF ~verify_secret(token, r)
  THEN reply(401, MSG_UNAUTHORIZED, FALSE, 0, cat)
  ELSE LET b == read_body(r)
       IN IF b.crashed THEN crash(cat) ELSE dispatch(cat, b.tag, b.params)

---------------------------------------------------------------------------
(* The state machine *)

NoReq  == [none |-> "request"]
NoResp == [none |-> "response"]
NoHist == [none |-> "exchange"]

\* What the client and the instrumentation see of a handler's result.
observed(out) ==
  [status |-> out.status, body |-> out.body, dispatched |-> out.dispatched,
   cat_reads |-> out.cat_reads]

\* main.py:43, run once while the module is imported.
LoadCatalog ==
  /\ pc = "start"
  /\ CAT' = load_catalog(csv)
  /\ pc' = "serving"
  /\ UNCHANGED <<SECRET_TOKEN, csv, req, resp, hist, arg, ret>>

\* main.py:70-178: one POST /fulfillment, the request drawn from Requests.
\* Requests are handled synchronously, one at a time.
Fulfillment(Requests) ==
  /\ pc = "serving"
  /\ req = NoReq
  /\ \E r \in Requests :
       LET out == fulfillment(CAT, SECRET_TOKEN, r)
       IN /\ req' = r
          /\ resp' = observed(out)
          /\ CAT' = out.cat
  /\ hist' = IF hist = NoHist THEN hist
             ELSE [hist EXCEPT !.later = IF @ < 2 THEN @ + 1 ELSE @]
  /\ UNCHANGED <<pc, SECRET_TOKEN, csv, arg, ret>>

\* The response has been sent; request and response are discarded.
Finish ==
  /\ pc = "serving"
  /\ req # NoReq
  /\ req' = NoReq
  /\ resp' = NoResp
  /\ UNCHANGED <<pc, SECRET_TOKEN, csv, CAT, hist, arg, ret>>

\* Keep the exchange just made, to compare later ones against it.
Observe ==
  /\ pc = "serving"
  /\ req # NoReq
  /\ hist = NoHist
  /\ hist' = [req |-> req, resp |-> resp, later |-> 0]
  /\ UNCHANGED <<pc, SECRET_TOKEN, csv, CAT, req, resp, arg, ret>>

\* normalize applied to arg, then to its own result.
CallNormalize ==
  /\ pc = "call"
  /\ Len(ret) < 2
  /\ ret' = Append(ret, normalize(IF ret = <<>> THEN arg ELSE ret[Len(ret)]))
  /\ UNCHANGED <<pc, SECRET_TOKEN, csv, CAT, req, resp, hist, arg>>

\* filter_activity_line applied to arg.
CallFilter ==
  /\ pc = "call"
  /\ ret = <<>>
  /\ ret' = <<filter_activity_line(arg.text, arg.query)>>
  /\ UNCHANGED <<pc, SECRET_TOKEN, csv, CAT, req, resp, hist, arg>>

---------------------------------------------------------------------------
(* Inputs *)

\* All strings over chars of length at most n.
StringsOver(chars, n) == UNION {[1..k -> chars] : k \in 0..n}

\* All sequences over S of length at most n.
SeqsUpTo(S, n) == UNION {[1..k -> S] : k \in 0..n}

\* A CSV row: the six columns the claims look at, and one value for the rest.
MkRow(name, state, district, about, activities, unique, other) ==
  [c \in Columns |->
     CASE c = FIELD_MAP["name"]       -> name
       [] c = FIELD_MAP["state"]      -> state
       [] c = FIELD_MAP["district"]   -> district
       [] c = FIELD_MAP["about"]      -> about
       [] c = FIELD_MAP["activities"] -> activities
       [] c = FIELD_MAP["unique"]     -> unique
       [] OTHER                       -> other]

Hdr(v) == [present |-> TRUE, value |-> v]
NoHdr  == [present |-> FALSE, value |-> <<>>]

TagFI(tag) == [kind |-> "map", hasTag |-> TRUE, tag |-> tag]
ParamSI(params) == [kind |-> "map", pkind |-> "map", parameters |-> params]

\* A well-formed request.
MkReq(hdr, tag, params) ==
  [header |-> hdr,
   body   |-> [kind |-> "object", fi |-> TagFI(tag), si |-> ParamSI(params)]]

InitWith(phase, token, rows, a) ==
  /\ pc = phase
  /\ SECRET_TOKEN = token
  /\ csv = rows
  /\ CAT = <<>>
  /\ req = NoReq
  /\ resp = NoResp
  /\ hist = NoHist
  /\ arg = a
  /\ ret = <<>>

---------------------------------------------------------------------------
(* normalize on its own *)

NormChars == {"a", "B", " ", "_", "\t"}

InitNormalize ==
  \E x \in StringsOver(NormChars, MaxLen) : InitWith("call", <<>>, <<>>, x)

NextNormalize == CallNormalize

SpecNormalize == InitNormalize /\ [][NextNormalize]_vars

---------------------------------------------------------------------------
(* filter_activity_line on its own *)

TextChars == {"a", "B", ";", " "}
QueryChars == {"a", "A", "b", " "}

InitFilter ==
  \E t \in StringsOver(TextChars, MaxTextLen) \cup {None},
     q \in StringsOver(QueryChars, MaxQueryLen) \cup {None} :
    InitWith("call", <<>>, <<>>, [text |-> t, query |-> q])

NextFilter == CallFilter

SpecFilter == InitFilter /\ [][NextFilter]_vars

---------------------------------------------------------------------------
(* load_catalog on its own *)

LoadNames == {None, <<" ">>, <<"a">>, <<"A", "_">>, <<" ", "b">>, <<"B">>}

LoadRows ==
  {MkRow(n, <<>>, <<>>, a, <<>>, <<>>, <<>>) :
     n \in LoadNames, a \in {<<"x">>, <<"y">>}}

InitLoad ==
  \E rows \in SeqsUpTo(LoadRows, MaxLoadRows) : InitWith("start", <<>>, rows, <<>>)

NextLoad == LoadCatalog

SpecLoad == InitLoad /\ [][NextLoad]_vars

---------------------------------------------------------------------------
(* The webhook behind a one-village catalog: the secret check, the shapes
   of the body, getPlaceDetails and getActivities *)

TOKEN == <<"a", "B", "1">>

Tokens == {<<>>, TOKEN}

Headers ==
  {NoHdr, Hdr(TOKEN), Hdr(<<"a", "b", "1">>), Hdr(<<"A", "B", "1">>),
   Hdr(<<>>), Hdr(<<"a", "B">>), Hdr(<<"a", "B", "1", "2">>)}

DetailRows ==
  {MkRow(<<"A", "b">>, s, d, <<"x">>, act, u, <<"p", ";", "q">>) :
     s   \in {<<>>, <<"S">>},
     d   \in {<<>>, <<"D">>, None},
     u   \in {<<>>, NOT_AVAILABLE, <<"u", ";", "v">>},
     act \in {None, <<" ", ";", " ">>, <<"F", ";", " ", "g", ";">>}}

DetailCsvs == {<<>>} \cup {<<r>> : r \in DetailRows}

FIs ==
  {AbsentFI,
   [kind |-> "null", hasTag |-> FALSE, tag |-> ""],
   [kind |-> "nonmap", hasTag |-> FALSE, tag |-> ""],
   [kind |-> "map", hasTag |-> FALSE, tag |-> ""]}
  \cup {TagFI(t) : t \in {"getPlaceDetails", "getActivities",
                          "getRecommendations", "doSomethingUnknown"}}

SIs ==
  {AbsentSI,
   [kind |-> "null", pkind |-> "absent", parameters |-> EmptyParams],
   [kind |-> "nonmap", pkind |-> "absent", parameters |-> EmptyParams],
   [kind |-> "map", pkind |-> "absent", parameters |-> EmptyParams],
   [kind |-> "map", pkind |-> "null", parameters |-> EmptyParams],
   [kind |-> "map", pkind |-> "nonmap", parameters |-> EmptyParams],
   ParamSI(EmptyParams),
   ParamSI("place" :> <<"a", "b">>),
   ParamSI("place" :> <<"z">>),
   ParamSI("district" :> <<"d">>),
   ParamSI("state" :> <<"z">>)}

Bodies ==
  {[kind |-> k, fi |-> AbsentFI, si |-> AbsentSI] : k \in {"none", "falsy", "nonmap"}}
  \cup {[kind |-> "object", fi |-> fi, si |-> si] : fi \in FIs, si \in SIs}

GateRequests ==
  {MkReq(h, t, "place" :> <<"a", "b">>) :
     h \in Headers, t \in {"getPlaceDetails", "getRecommendations", "nope"}}

ShapeRequests == {[header |-> Hdr(TOKEN), body |-> b] : b \in Bodies}

DetailParams ==
  {k :> <<"a", "_", "B">> : k \in {"place", "cx_entities_place"}}
  \cup {("place" :> <<"A", "b">>) @@ (k :> a) :
          k \in {"activity", "cx_entities_activity"},
          a \in {<<>>, <<"f">>, <<" ">>, <<"z">>}}

DetailRequests ==
  {MkReq(Hdr(TOKEN), t, ps) :
     t \in {"getPlaceDetails", "getActivities"}, ps \in DetailParams}

Requests == GateRequests \cup ShapeRequests \cup DetailRequests

Init ==
  \E token \in Tokens, rows \in DetailCsvs : InitWith("start", token, rows, <<>>)

Next == LoadCatalog \/ Fulfillment(Requests) \/ Finish

Spec == Init /\ [][Next]_vars

---------------------------------------------------------------------------
(* The by-place handlers over every short place string *)

PlaceChars == {"a", "B", " ", "_", "\t"}

PlaceRows ==
  {MkRow(n, <<"S">>, <<"D">>, <<"x">>, <<"f">>, <<"u">>, <<"p">>) :
     n \in {<<"a">>, <<"A", " ", "b">>, <<"b">>}}

PlaceRequests ==
  {MkReq(NoHdr, t, "place" :> p) :
     t \in ByPlaceTags, p \in StringsOver(PlaceChars, MaxPlaceLen)}
  \cup {MkReq(NoHdr, t, EmptyParams) : t \in ByPlaceTags}

InitPlace ==
  \E rows \in SeqsUpTo(PlaceRows, MaxRows) : InitWith("start", <<>>, rows, <<>>)

NextPlace == LoadCatalog \/ Fulfillment(PlaceRequests) \/ Finish

SpecPlace == InitPlace /\ [][NextPlace]_vars

---------------------------------------------------------------------------
(* getRecommendations over catalogs of up to MaxRecRows villages *)

\* Row i is village UPPER[i]; it lies in one of two districts, each in a
\* state of its own.
RecKinds ==
  {[district |-> <<"K", " ", "u">>, state |-> <<"H">>],
   [district |-> <<"S">>, state |-> <<"G">>]}

\* The file behind these catalogs has three columns only.
RecRow(i, kind) ==
  (FIELD_MAP["name"] :> <<UPPER[i]>>)
  @@ (FIELD_MAP["state"] :> kind.state)
  @@ (FIELD_MAP["district"] :> kind.district)

RecParams ==
  {EmptyParams,
   "cx_entities_district" :> <<"s">>,
   "state" :> <<>>}
  \cup {"district" :> d : d \in {<<"k", "U">>, <<"S">>, <<"z">>}}
  \cup {"state" :> st : st \in {<<"h">>, <<"G">>}}
  \cup {("district" :> d) @@ ("state" :> st) :
          d \in {<<"k", "U">>, <<"S">>, <<"z">>}, st \in {<<"h">>, <<"G">>}}

RecRequests == {MkReq(NoHdr, "getRecommendations", ps) : ps \in RecParams}

InitRecommend ==
  \E n \in 0..MaxRecRows :
    \E kinds \in [1..n -> RecKinds] :
      InitWith("start", <<>>, [i \in 1..n |-> RecRow(i, kinds[i])], <<>>)

NextRecommend == LoadCatalog \/ Fulfillment(RecRequests) \/ Finish

SpecRecommend == InitRecommend /\ [][NextRecommend]_vars

---------------------------------------------------------------------------
(* Sequences of requests, with one earlier exchange kept *)

ReplayRows ==
  {MkRow(n, <<"S">>, <<"D">>, <<"x">>, <<"f", ";", "g">>, <<"u">>, <<"p">>) :
     n \in {<<"a">>, <<"B">>}}

ReplayRequests ==
  {MkReq(NoHdr, "getPlaceDetails", "place" :> <<"a">>),
   MkReq(Hdr(TOKEN), "getPlaceDetails", "place" :> <<"A", " ">>),
   MkReq(Hdr(TOKEN), "getActivities",
         ("place" :> <<"b">>) @@ ("activity" :> <<"G">>)),
   MkReq(Hdr(TOKEN), "getOfficial", "place" :> <<"z">>),
   MkReq(Hdr(TOKEN), "getRecommendations", "state" :> <<"s">>),
   MkReq(Hdr(TOKEN), "doSomethingUnknown", EmptyParams),
   [header |-> Hdr(TOKEN),
    body   |-> [kind |-> "none", fi |-> AbsentFI, si |-> AbsentSI]]}

InitReplay ==
  \E token \in Tokens, rows \in SeqsUpTo(ReplayRows, MaxRows) :
    InitWith("start", token, rows, <<>>)

NextReplay == LoadCatalog \/ Fulfillment(ReplayRequests) \/ Observe \/ Finish

SpecReplay == InitReplay /\ [][NextReplay]_vars

---------------------------------------------------------------------------
(* Vocabulary of the properties, defined without the code's helpers *)

\* t is s without its leading and trailing whitespace.
IsTrimOf(t, s) ==
  \E i \in 1..(Len(s) + 1), j \in 0..Len(s) :
    /\ t = SubSeq(s, i, j)
    /\ \A k \in 1..Len(s) : (k < i \/ k > j) => s[k] \in WHITESPACE
    /\ t # <<>> => (t[1] \notin WHITESPACE /\ t[Len(t)] \notin WHITESPACE)

Trimmed(s) ==
  CHOOSE t \in {SubSeq(s, i, j) : i \in 1..(Len(s) + 1), j \in 0..Len(s)} :
    IsTrimOf(t, s)

\* The elements of a finite set of integers, in increasing order.
RECURSIVE Ascending(_)
Ascending(S) ==
  IF S = {} THEN <<>> ELSE <<SetMin(S)>> \o Ascending(S \ {SetMin(S)})

\* The ';'-segments of s, trimmed, the empty ones left out, in source order.
Segments(s) ==
  LET cuts   == Ascending({0, Len(s) + 1} \cup {i \in 1..Len(s) : s[i] = ";"})
      pieces == [k \in 1..(Len(cuts) - 1) |->
                   Trimmed(SubSeq(s, cuts[k] + 1, cuts[k + 1] - 1))]
  IN SelectSeq(pieces, LAMBDA x : x # <<>>)

\* The segments of text that hold q, letter case ignored.
Matching(text, q) ==
  SelectSeq(Segments(or_empty(text)), LAMBDA x : contains(lower(q), lower(x)))

\* One bullet line per item, joined by newlines.
BulletLines(items) ==
  join(<<"\n">>, [i \in 1..Len(items) |-> <<BULLET, " ">> \o items[i]])

\* The request is a JSON object whose fulfillmentInfo, sessionInfo and
\* parameters are objects.
WellFormed(r) ==
  /\ r.body.kind = "object"
  /\ r.body.fi.kind = "map"
  /\ r.body.si.kind = "map"
  /\ r.body.si.pkind = "map"

TagOf(r) == IF r.body.fi.hasTag THEN r.body.fi.tag ELSE ""

\* The value of an entity: the primary parameter if it is there and not
\* empty, else the cx_entities_ one, else the empty string.
Entity(r, name) ==
  LET ps == r.body.si.parameters
      first(ks) == IF ks = <<>> THEN <<>> ELSE ps[ks[1]]
      given == SelectSeq(<<name, "cx_entities_" \o name>>,
                         LAMBDA k : k \in DOMAIN ps /\ ps[k] \notin {None, <<>>})
  IN first(given)

\* The one text of a 200 response.
Text(r) == r.body.fulfillmentResponse.messages[1].text.text[1]

\* The response is the envelope with exactly one text message.
OneTextMessage(r) ==
  /\ DOMAIN r.body = {"fulfillmentResponse"}
  /\ Len(r.body.fulfillmentResponse.messages) = 1
  /\ Len(r.body.fulfillmentResponse.messages[1].text.text) = 1

\* The request carries the configured secret, or none is configured.
PassesSecret(r) ==
  \/ SECRET_TOKEN = <<>>
  \/ r.header.present /\ r.header.value = SECRET_TOKEN

CatKeys == {CAT[e].key : e \in 1..Len(CAT)}

RecordAt(k) == CAT[CHOOSE e \in 1..Len(CAT) : CAT[e].key = k].row

\* A cell of a record, trimmed; a missing cell is blank.
Cell(row, col) ==
  Trimmed(IF col \in DOMAIN row /\ row[col] # None THEN row[col] ELSE <<>>)

StartsWith(s, prefix) ==
  Len(prefix) <= Len(s) /\ SubSeq(s, 1, Len(prefix)) = prefix

DeleteAt(s, i) == SubSeq(s, 1, i - 1) \o SubSeq(s, i + 1, Len(s))

SwapCase(c) ==
  IF \E i \in 1..26 : UPPER[i] = c THEN LOWER[CHOOSE i \in 1..26 : UPPER[i] = c]
  ELSE IF \E i \in 1..26 : LOWER[i] = c THEN UPPER[CHOOSE i \in 1..26 : LOWER[i] = c]
  ELSE c

\* The strings one edit away from p, the edit being: a space or an
\* underscore deleted, the case of one letter changed, a leading or a
\* trailing whitespace character deleted.
Neighbours(p) ==
  {DeleteAt(p, i) : i \in {j \in 1..Len(p) : p[j] \in {" ", "_"}}}
  \cup {[p EXCEPT ![i] = SwapCase(p[i])] : i \in 1..Len(p)}
  \cup {DeleteAt(p, i) : i \in {j \in {1, Len(p)} \cap (1..Len(p)) : p[j] \in WHITESPACE}}

\* The request r asking for place p instead.
WithPlace(r, p) ==
  [r EXCEPT !.body.si.parameters = ("place" :> p) @@ @]

\* How each by-place answer begins for a record.
Lead(tag, row) ==
  LET name == Cell(row, "Village Name")
  IN CASE tag = "getPlaceDetails" -> name \o <<" ", "(">>
       [] tag = "getAttractions"  -> TXT_ATTRACTIONS \o name \o <<":", "\n">>
       [] tag = "getActivities"   -> TXT_ACTIVITIES \o name \o <<":", "\n">>
       [] tag = "getFood"         -> TXT_FOOD \o name \o <<":", "\n">>
       [] tag = "getTransport"    -> TXT_TRANSPORT \o name \o <<":", "\n">>
       [] tag = "getStays"        -> TXT_STAYS \o name \o <<":", "\n">>
       [] tag = "getHandicrafts"  -> TXT_CRAFTS \o name \o <<":", "\n">>
       [] tag = "getOfficial"     -> TXT_OFFICIAL \o name \o <<":", "\n">>

\* The positions of the catalog whose column col normalizes like val.
Candidates(col, val) ==
  {e \in 1..Len(CAT) :
     normalize(IF col \in DOMAIN CAT[e].row THEN CAT[e].row[col] ELSE None)
       = normalize(val)}

\* The raw village names at the first n of these positions, in catalog order.
FirstNames(positions, n) ==
  LET order == Ascending(positions)
      m == IF Len(order) < n THEN Len(order) ELSE n
  IN [k \in 1..m |-> CAT[order[k]].row["Village Name"]]

---------------------------------------------------------------------------
(* Properties *)

\* C4: normalize is idempotent: normalize(normalize(x)) = normalize(x) for
\* every string x, whatever mix of spaces, underscores, upper-case letters
\* and other whitespace (tabs, newlines) it holds.
C4_NormalizeIdempotent == Len(ret) = 2 => ret[2] = ret[1]

\* C8 as stated: an empty or absent query returns the text unchanged; any
\* other query, taken as given (whitespace included), returns the segments
\* that hold it joined by "; ", and the not-found literal exactly when no
\* segment holds it.
C8_FilterUsesQueryAsGiven ==
  ret # <<>> =>
    IF ~truthy(arg.query) THEN ret[1] = arg.text
    ELSE LET hits == Matching(arg.text, arg.query)
         IN /\ ret[1] = IF hits = <<>> THEN MSG_NO_ACTIVITY
                        ELSE join(<<";", " ">>, hits)
            /\ ret[1] = MSG_NO_ACTIVITY <=> hits = <<>>

\* C8 as amended: an empty or absent query returns the text unchanged; any
\* other query is compared after its leading and trailing whitespace is
\* trimmed (so a whitespace-only query matches every segment): the result
\* is the matching segments joined by "; ", or the not-found literal when
\* there is none.
C8_FilterUsesTrimmedQuery ==
  ret # <<>> =>
    IF ~truthy(arg.query) THEN ret[1] = arg.text
    ELSE LET hits == Matching(arg.text, Trimmed(arg.query))
         IN ret[1] = IF hits = <<>> THEN MSG_NO_ACTIVITY
                     ELSE join(<<";", " ">>, hits)

\* A padded query picked one segment out of two.
C8_Witness ==
  /\ ret # <<>>
  /\ arg.query = <<" ", "b">>
  /\ arg.text = <<"a", ";", "B">>
  /\ ret[1] = <<"B">>

NameKey(i) == normalize(row_get(csv[i], "Village Name"))

RowsOfKey(k) == {i \in 1..Len(csv) : NameKey(i) = k}

\* C5: after load_catalog the keys are exactly the non-empty normalized
\* village names of the rows; each key holds the last row that normalizes
\* to it; and the keys stand in the order of their first rows.
C5_CatalogAfterLoad ==
  pc = "serving" =>
    /\ {CAT[e].key : e \in 1..Len(CAT)}
         = {NameKey(i) : i \in 1..Len(csv)} \ {<<>>}
    /\ \A e, f \in 1..Len(CAT) : e # f => CAT[e].key # CAT[f].key
    /\ \A e \in 1..Len(CAT) :
         CAT[e].row = csv[SetMax(RowsOfKey(CAT[e].key))]
    /\ \A e, f \in 1..Len(CAT) :
         e < f => SetMin(RowsOfKey(CAT[e].key)) < SetMin(RowsOfKey(CAT[f].key))

\* Three rows a, b, a': the record of a' stands in the first place, where
\* the key of a was inserted, and b stands second.
C5_Witness ==
  /\ pc = "serving"
  /\ Len(csv) = 3
  /\ Len(CAT) = 2
  /\ NameKey(1) = NameKey(3)
  /\ NameKey(2) \notin {<<>>, NameKey(1)}
  /\ csv[1] # csv[3]
  /\ CAT[1].row = csv[3]

\* C1: with a non-empty secret configured, a request whose header is
\* missing or differs from the token in any way gets 401 "Unauthorized"
\* and neither dispatch nor any catalog access happens; every other
\* request goes on to dispatch.
C1_SecretGate ==
  req # NoReq =>
    IF SECRET_TOKEN # <<>>
       /\ (~req.header.present \/ req.header.value # SECRET_TOKEN)
    THEN /\ resp.status = 401
         /\ resp.body = envelope(MSG_UNAUTHORIZED)
         /\ ~resp.dispatched
         /\ resp.cat_reads = 0
    ELSE /\ resp.dispatched
         /\ resp.status # 401

\* A header that differs from the token in letter case only was refused.
C1_Witness ==
  /\ req # NoReq
  /\ SECRET_TOKEN # <<>>
  /\ req.header.present
  /\ req.header.value # SECRET_TOKEN
  /\ lower(req.header.value) = lower(SECRET_TOKEN)
  /\ resp.status = 401

\* C2: a by-place tag answers the not-found message (HTTP 200) exactly
\* when normalize(place) is empty or no catalog key; otherwise it answers
\* from the record at normalize(place); and two place strings that differ
\* only in letter case, spaces, underscores and leading/trailing
\* whitespace get the same response.
C2_ByPlaceLookup ==
  (req # NoReq /\ WellFormed(req) /\ TagOf(req) \in ByPlaceTags /\ PassesSecret(req)) =>
    LET p == Entity(req, "place")
        k == normalize(p)
    IN /\ resp.status = 200
       /\ Text(resp) = MSG_NOT_FOUND <=> (k = <<>> \/ k \notin CatKeys)
       /\ k \in CatKeys => StartsWith(Text(resp), Lead(TagOf(req), RecordAt(k)))
       /\ \A p2 \in Neighbours(p) :
            fulfillment(CAT, SECRET_TOKEN, WithPlace(req, p2)).body = resp.body

\* C3: every request that passes the secret check ends with HTTP 200 and
\* exactly one text message, whatever the shape of its body; only a failed
\* secret check gives another status.
C3_AlwaysOkPastSecret ==
  req # NoReq =>
    /\ PassesSecret(req) => (resp.status = 200 /\ OneTextMessage(resp))
    /\ resp.status # 200 => ~PassesSecret(req)

\* C6: getRecommendations with a non-empty district selects by district,
\* a state notwithstanding, and with an empty district and a non-empty
\* state by state; with n >= 1 candidates the answer lists the names of the
\* first min(10, n) of them in catalog order, one bullet line each.
C6_Recommendations ==
  (req # NoReq /\ WellFormed(req) /\ TagOf(req) = "getRecommendations"
   /\ PassesSecret(req)) =>
    LET d == Entity(req, "district")
        st == Entity(req, "state")
        scope == IF d # <<>> THEN d ELSE st
        cands == Candidates(IF d # <<>> THEN "District" ELSE "State", scope)
    IN (scope # <<>> /\ cands # {}) =>
         /\ resp.status = 200
         /\ Text(resp) = TXT_RECOMMENDED \o scope \o <<":", "\n">>
                         \o BulletLines(FirstNames(cands, 10))

\* District and state were both given and select different villages; the
\* district has more than ten, and ten were listed.
C6_Witness ==
  /\ req # NoReq
  /\ Entity(req, "district") # <<>>
  /\ Entity(req, "state") # <<>>
  /\ Cardinality(Candidates("District", Entity(req, "district"))) > 10
  /\ Candidates("State", Entity(req, "state")) # {}
  /\ Candidates("State", Entity(req, "state"))
       # Candidates("District", Entity(req, "district"))
  /\ resp.status = 200
  /\ StartsWith(Text(resp), TXT_RECOMMENDED)

\* C7: getPlaceDetails on a found place gives the name, then district and
\* state in parentheses with a blank one left out (no stray comma, no empty
\* parentheses), then the about text, then a "Unique:" bullet block exactly
\* when the unique field is neither blank nor the placeholder.
C7_PlaceDetailsText ==
  (req # NoReq /\ WellFormed(req) /\ TagOf(req) = "getPlaceDetails"
   /\ PassesSecret(req) /\ normalize(Entity(req, "place")) \in CatKeys) =>
    LET row    == RecordAt(normalize(Entity(req, "place")))
        name   == Cell(row, "Village Name")
        about  == Cell(row, "About the Village")
        unique == Cell(row, "Unique Features")
        inside == join(<<",", " ">>,
                       SelectSeq(<<Cell(row, "District"), Cell(row, "State")>>,
                                 LAMBDA x : x # <<>>))
        header == IF inside = <<>> THEN name
                  ELSE name \o <<" ", "(">> \o inside \o <<")">>
        block  == IF unique # <<>> /\ unique # NOT_AVAILABLE
                  THEN TXT_UNIQUE \o BulletLines(Segments(unique))
                  ELSE <<>>
    IN /\ resp.status = 200
       /\ Text(resp) = header \o <<"\n", "\n">>
                       \o (IF about = <<>> THEN NOT_AVAILABLE ELSE about)
                       \o block

\* C9: request handling never changes the catalog, and a request issued
\* again later in the sequence gets the response it got before.
C9_CatalogReadOnly ==
  /\ pc = "serving" => CAT = load_catalog(csv)
  /\ (hist # NoHist /\ req = hist.req) => resp = hist.resp

\* A request that read a record was answered, other requests followed, and
\* it was issued again.
C9_Witness ==
  /\ hist # NoHist
  /\ hist.later = 2
  /\ req = hist.req
  /\ resp = hist.resp
  /\ resp.status = 200
  /\ resp.cat_reads = 2

\* C10: getActivities on a found place with no activity query answers
\* "Activities in {name}:" and one bullet line per non-empty trimmed
\* segment of the activities field; when the field is blank or has no such
\* segment, the text handed to bullets (the placeholder for a blank field)
\* follows unchanged, without a bullet.
C10_ActivitiesText ==
  (req # NoReq /\ WellFormed(req) /\ TagOf(req) = "getActivities"
   /\ PassesSecret(req) /\ normalize(Entity(req, "place")) \in CatKeys
   /\ Entity(req, "activity") = <<>>) =>
    LET row   == RecordAt(normalize(Entity(req, "place")))
        field == Cell(row, "Activities")
        segs  == Segments(field)
    IN /\ resp.status = 200
       /\ Text(resp) = TXT_ACTIVITIES \o Cell(row, "Village Name") \o <<":", "\n">>
                       \o (IF segs # <<>> THEN BulletLines(segs)
                           ELSE IF field = <<>> THEN NOT_AVAILABLE
                           ELSE field)

====
